---- MODULE Spec2Model ----
(***************************************************************************)
(* Model of controlSensitizingGraph (src/control.py): the validation of    *)
(* the selected column, the computation of mean / sample standard          *)
(* deviation, the single left-to-right scan applying the eight SPC rules,  *)
(* and the assembly of the returned dictionary.                            *)
(*                                                                         *)
(* Numbers.  The samples are integers.  mean, std and every z-score are    *)
(* kept as exact real numbers:                                             *)
(*   mean = num / den                                                      *)
(*   std  = sqrt(sqnum / sqden)          (only std^2 is rational)          *)
(*   z    = sign * sqrt(sqn / sqd)                                         *)
(* so every comparison of the code (z >= 2, abs(z) < 1, std == 0, ...) is  *)
(* decided exactly by cross-multiplication.  float64 rounding of the       *)
(* division and of the square root is not modelled.                        *)
(*                                                                         *)
(* Indices.  Python indices are 0-based; At(s, k) reads s[k] and           *)
(* PySlice(s, a, b) is s[a:b] with Python's clamping.                      *)
(***************************************************************************)
EXTENDS Integers, Sequences, FiniteSets, TLC

VARIABLES pc, df, data, mean, std, i, zScores, problemPoints, messages,
          result, off, messagesOff, problemPointsOff

vars == <<pc, df, data, mean, std, i, zScores, problemPoints, messages,
          result, off, messagesOff, problemPointsOff>>

----------------------------------------------------------------------------
(* Bounds of the explored inputs *)

\* largest sample value of the enumerated columns (values are 0..MaxVal)
MaxVal == 2
\* longest exhaustively enumerated column, and longest free head of a
\* head-and-runs column
MaxLen == 2
\* longest constant run appended to a head
MaxRun == 12
\* longest walk (sequence given by a cyclic pattern of steps)
MaxWalk == 16
\* longest cyclic step pattern of a walk
MaxPat == 2

Vals == 0..MaxVal
Steps == {0 - 1, 0, 1}

----------------------------------------------------------------------------
(* Values *)

None == [none |-> TRUE]

\* a cell of the CSV column: a number or a missing value (NaN)
Cell(v) == [isna |-> FALSE, v |-> v]
NaN == [isna |-> TRUE, v |-> 0]

Sgn(d) == IF d > 0 THEN 1 ELSE IF d < 0 THEN 0 - 1 ELSE 0

Max(a, b) == IF a >= b THEN a ELSE b
Min(a, b) == IF a <= b THEN a ELSE b

\* s[k], 0-based
At(s, k) == s[k + 1]

\* s[a:b]: negative bounds count from the end, bounds are clamped to the list
PyBound(s, a) == IF a < 0 THEN Max(a + Len(s), 0) ELSE Min(a, Len(s))
PySlice(s, a, b) == SubSeq(s, PyBound(s, a) + 1, PyBound(s, b))

\* range(a, b)
Range(a, b) == a..(b - 1)

RECURSIVE SumSeq(_)
SumSeq(s) == IF s = <<>> THEN 0 ELSE Head(s) + SumSeq(Tail(s))

RECURSIVE SumSq(_)
SumSq(s) == IF s = <<>> THEN 0 ELSE Head(s) * Head(s) + SumSq(Tail(s))

\* sum(P(v) for v in w)
CountIf(w, P(_)) == Cardinality({k \in DOMAIN w : P(w[k])})
\* all(P(v) for v in w), any(P(v) for v in w)
AllOf(w, P(_)) == \A k \in DOMAIN w : P(w[k])
AnyOf(w, P(_)) == \E k \in DOMAIN w : P(w[k])

----------------------------------------------------------------------------
(* Series operations *)

\* df[outputCol].dropna().reset_index(drop=True)
RECURSIVE DropNa(_)
DropNa(col) ==
    IF col = <<>> THEN <<>>
    ELSE IF Head(col).isna THEN DropNa(Tail(col))
         ELSE <<Head(col).v>> \o DropNa(Tail(col))

\* data.mean()
Mean(d) == [num |-> SumSeq(d), den |-> Len(d)]

\* as Std, with the divisor n of the population standard deviation (ddof=0)
Std_Population(d) ==
    [sqnum |-> Len(d) * SumSq(d) - SumSeq(d) * SumSeq(d),
     sqden |-> Len(d) * Len(d)]

\* data.std(ddof=1): std^2 = sum((x - mean)^2) / (n - 1)
\*                         = (n * sum(x^2) - sum(x)^2) / (n * (n - 1))
Std(d) == [sqnum |-> Len(d) * SumSq(d) - SumSeq(d) * SumSeq(d),
           sqden |-> Len(d) * (Len(d) - 1)]

\* as TooShort, rejecting only the empty series
TooShort_OnlyEmpty(d) == Len(d) < 1

\* len(data) < 2
TooShort(d) == Len(d) < 2

\* as StdUndefined, without the test for zero
StdUndefined_NaNOnly(s) == s.sqnum < 0

\* std == 0 or pd.isna(std); a finite series of two or more values has a
\* finite std, so only the zero test can hold
StdUndefined(s) == s.sqnum = 0

\* z = (x - mean) / std as an exact real: with d = x * den - num,
\* z = d / (den * std) and z^2 = d^2 * sqden / (den^2 * sqnum); the common
\* factor den is cancelled (sqden = den * (den - 1) for the values of Std)
ZScore(x, m, s) ==
    LET d == x * m.den - m.num
    IN [sign |-> Sgn(d), sqn |-> d * d * (s.sqden \div m.den),
        sqd |-> m.den * s.sqnum]

\* v >= k and v <= -k for an integer k > 0, v > 0, v < 0, abs(v) >= k,
\* abs(v) < k
Ge(v, k) == v.sign > 0 /\ v.sqn >= k * k * v.sqd
Le(v, k) == v.sign < 0 /\ v.sqn >= k * k * v.sqd
Pos(v) == v.sign > 0
Neg(v) == v.sign < 0
AbsGe(v, k) == v.sqn >= k * k * v.sqd
AbsLt(v, k) == v.sqn < k * k * v.sqd

----------------------------------------------------------------------------
(* The eight rules.  acc is the pair of accumulators of the scan:          *)
(* acc.messages (the list) and acc.problemPoints (the set).  A message is  *)
(* kept as the rule number and the indices its text names; dir is the      *)
(* direction word of Rule 5.                                               *)

Msg(r, lo, hi, dir) == [rule |-> r, lo |-> lo, hi |-> hi, dir |-> dir]

\* Rule 1: One point outside +/-3
Rule1(acc, k, z) ==
    IF AbsGe(z, 3)
    THEN [messages |-> Append(acc.messages, Msg(1, k, k, "")),
          problemPoints |-> acc.problemPoints \cup {k}]
    ELSE acc

\* as Rule2, firing only when no point of the window is beyond the threshold
\* on the other side
Rule2_SameSide(acc, k, zs) ==
    IF k >= 2
    THEN LET window == PySlice(zs, k - 2, k + 1)
             pos == CountIf(window, LAMBDA v : Ge(v, 2))
             neg == CountIf(window, LAMBDA v : Le(v, 2))
         IN IF (pos >= 2 /\ neg = 0) \/ (neg >= 2 /\ pos = 0)
            THEN [messages |-> Append(acc.messages, Msg(2, k - 2, k, "")),
                  problemPoints |-> acc.problemPoints \cup Range(k - 2, k + 1)]
            ELSE acc
    ELSE acc

\* Rule 2: Two of three consecutive points outside +/-2 on same side
Rule2(acc, k, zs) ==
    IF k >= 2
    THEN LET window == PySlice(zs, k - 2, k + 1)
             pos == CountIf(window, LAMBDA v : Ge(v, 2))
             neg == CountIf(window, LAMBDA v : Le(v, 2))
         IN IF pos >= 2 \/ neg >= 2
            THEN [messages |-> Append(acc.messages, Msg(2, k - 2, k, "")),
                  problemPoints |-> acc.problemPoints \cup Range(k - 2, k + 1)]
            ELSE acc
    ELSE acc

\* Rule 3: Four of five beyond +/-1 on same side
Rule3(acc, k, zs) ==
    IF k >= 4
    THEN LET window == PySlice(zs, k - 4, k + 1)
             pos == CountIf(window, LAMBDA v : Ge(v, 1))
             neg == CountIf(window, LAMBDA v : Le(v, 1))
         IN IF pos >= 4 \/ neg >= 4
            THEN [messages |-> Append(acc.messages, Msg(3, k - 4, k, "")),
                  problemPoints |-> acc.problemPoints \cup Range(k - 4, k + 1)]
            ELSE acc
    ELSE acc

\* as Rule4, flagging one index more than the window holds
Rule4_WideSpan(acc, k, zs) ==
    IF k >= 7
    THEN LET window == PySlice(zs, k - 7, k + 1)
             all_pos == AllOf(window, Pos)
             all_neg == AllOf(window, Neg)
         IN IF all_pos \/ all_neg
            THEN [messages |-> Append(acc.messages, Msg(4, k - 7, k, "")),
                  problemPoints |-> acc.problemPoints \cup Range(k - 8, k + 1)]
            ELSE acc
    ELSE acc

\* Rule 4: Eight consecutive on same side of center line
Rule4(acc, k, zs) ==
    IF k >= 7
    THEN LET window == PySlice(zs, k - 7, k + 1)
             all_pos == AllOf(window, Pos)
             all_neg == AllOf(window, Neg)
         IN IF all_pos \/ all_neg
            THEN [messages |-> Append(acc.messages, Msg(4, k - 7, k, "")),
                  problemPoints |-> acc.problemPoints \cup Range(k - 7, k + 1)]
            ELSE acc
    ELSE acc

\* as Rule5, with non-strict comparisons
Rule5_NonStrict(acc, k, d) ==
    IF k >= 5
    THEN LET w == PySlice(d, k - 5, k + 1)
             inc == \A j \in Range(0, 5) : At(w, j) <= At(w, j + 1)
             dec == \A j \in Range(0, 5) : At(w, j) >= At(w, j + 1)
         IN IF inc \/ dec
            THEN [messages |-> Append(acc.messages,
                      Msg(5, k - 5, k,
                          IF inc THEN "increasing" ELSE "decreasing")),
                  problemPoints |-> acc.problemPoints \cup Range(k - 5, k + 1)]
            ELSE acc
    ELSE acc

\* as Rule5, written as the elif of Rule 4: skipped when Rule 4 has just
\* fired at the same index
Rule5_Elif(acc, k, d) ==
    IF k >= 5 /\ ~(\E j \in DOMAIN acc.messages :
                      acc.messages[j].rule = 4 /\ acc.messages[j].hi = k)
    THEN LET w == PySlice(d, k - 5, k + 1)
             inc == \A j \in Range(0, 5) : At(w, j) < At(w, j + 1)
             dec == \A j \in Range(0, 5) : At(w, j) > At(w, j + 1)
         IN IF inc \/ dec
            THEN [messages |-> Append(acc.messages,
                      Msg(5, k - 5, k,
                          IF inc THEN "increasing" ELSE "decreasing")),
                  problemPoints |-> acc.problemPoints \cup Range(k - 5, k + 1)]
            ELSE acc
    ELSE acc

\* Rule 5: Six steadily increasing or decreasing (uses raw data)
Rule5(acc, k, d) ==
    IF k >= 5
    THEN LET w == PySlice(d, k - 5, k + 1)
             inc == \A j \in Range(0, 5) : At(w, j) < At(w, j + 1)
             dec == \A j \in Range(0, 5) : At(w, j) > At(w, j + 1)
         IN IF inc \/ dec
            THEN [messages |-> Append(acc.messages,
                      Msg(5, k - 5, k,
                          IF inc THEN "increasing" ELSE "decreasing")),
                  problemPoints |-> acc.problemPoints \cup Range(k - 5, k + 1)]
            ELSE acc
    ELSE acc

\* Rule 6: Fifteen within +/-1
Rule6(acc, k, zs) ==
    IF k >= 14
    THEN LET window == PySlice(zs, k - 14, k + 1)
         IN IF AllOf(window, LAMBDA v : AbsLt(v, 1))
            THEN [messages |-> Append(acc.messages, Msg(6, k - 14, k, "")),
                  problemPoints |-> acc.problemPoints \cup Range(k - 14, k + 1)]
            ELSE acc
    ELSE acc

\* as Rule7, without the test for zero differences and with a non-strict
\* alternation test
Rule7_AllowsZero(acc, k, d) ==
    IF k >= 13
    THEN LET w == PySlice(d, k - 13, k + 1)
             diffs == [j \in 1..13 |-> At(w, j) - At(w, j - 1)]
             alternating ==
                 \A j \in Range(0, 12) : At(diffs, j) * At(diffs, j + 1) <= 0
         IN IF alternating
            THEN [messages |-> Append(acc.messages, Msg(7, k - 13, k, "")),
                  problemPoints |-> acc.problemPoints \cup Range(k - 13, k + 1)]
            ELSE acc
    ELSE acc

\* Rule 7: Fourteen alternating up/down (raw data)
Rule7(acc, k, d) ==
    IF k >= 13
    THEN LET w == PySlice(d, k - 13, k + 1)
             diffs == [j \in 1..13 |-> At(w, j) - At(w, j - 1)]
         IN IF \A j \in Range(0, 13) : At(diffs, j) # 0
            THEN LET alternating ==
                         \A j \in Range(0, 12) :
                             At(diffs, j) * At(diffs, j + 1) < 0
                 IN IF alternating
                    THEN [messages |->
                              Append(acc.messages, Msg(7, k - 13, k, "")),
                          problemPoints |->
                              acc.problemPoints \cup Range(k - 13, k + 1)]
                    ELSE acc
            ELSE acc
    ELSE acc

\* Rule 8: Eight outside +/-1 on both sides
Rule8(acc, k, zs) ==
    IF k >= 7
    THEN LET window == PySlice(zs, k - 7, k + 1)
         IN IF /\ AllOf(window, LAMBDA v : AbsGe(v, 1))
               /\ AnyOf(window, Pos)
               /\ AnyOf(window, Neg)
            THEN [messages |-> Append(acc.messages, Msg(8, k - 7, k, "")),
                  problemPoints |-> acc.problemPoints \cup Range(k - 7, k + 1)]
            ELSE acc
    ELSE acc

\* as LoopBody, with the blocks of Rule 4 and Rule 5 in the other order
LoopBody_Rule5BeforeRule4(acc, k, z, d, zs, dis) ==
    LET a1 == IF dis = 1 THEN acc ELSE Rule1(acc, k, z)
        a2 == IF dis = 2 THEN a1 ELSE Rule2(a1, k, zs)
        a3 == IF dis = 3 THEN a2 ELSE Rule3(a2, k, zs)
        a4 == IF dis = 5 THEN a3 ELSE Rule5(a3, k, d)
        a5 == IF dis = 4 THEN a4 ELSE Rule4(a4, k, zs)
        a6 == IF dis = 6 THEN a5 ELSE Rule6(a5, k, zs)
        a7 == IF dis = 7 THEN a6 ELSE Rule7(a6, k, d)
        a8 == IF dis = 8 THEN a7 ELSE Rule8(a7, k, zs)
    IN a8

\* The body of the for loop after zScores.append: the eight rule blocks in
\* program order, each working on the accumulators the previous one left.
\* dis names a rule whose block is skipped (0: none); the program itself
\* always runs with dis = 0.
LoopBody(acc, k, z, d, zs, dis) ==
    LET a1 == IF dis = 1 THEN acc ELSE Rule1(acc, k, z)
        a2 == IF dis = 2 THEN a1 ELSE Rule2(a1, k, zs)
        a3 == IF dis = 3 THEN a2 ELSE Rule3(a2, k, zs)
        a4 == IF dis = 4 THEN a3 ELSE Rule4(a3, k, zs)
        a5 == IF dis = 5 THEN a4 ELSE Rule5(a4, k, d)
        a6 == IF dis = 6 THEN a5 ELSE Rule6(a5, k, zs)
        a7 == IF dis = 7 THEN a6 ELSE Rule7(a6, k, d)
        a8 == IF dis = 8 THEN a7 ELSE Rule8(a7, k, zs)
    IN a8

\* sorted(problemPoints)
RECURSIVE Sorted(_)
Sorted(S) ==
    IF S = {} THEN <<>>
    ELSE LET m == CHOOSE m \in S : \A y \in S : m <= y
         IN <<m>> \o Sorted(S \ {m})

----------------------------------------------------------------------------
(* Inputs *)

Rep(v, k) == [j \in 1..k |-> v]

\* the sequence starting at 0 whose successive differences repeat pattern p
RECURSIVE Walk(_, _)
Walk(p, len) ==
    IF len = 0 THEN <<>>
    ELSE IF len = 1 THEN <<0>>
    ELSE LET w == Walk(p, len - 1)
         IN Append(w, w[len - 1] + p[((len - 2) % Len(p)) + 1])

SeqsUpTo(S, len) == UNION {[1..k -> S] : k \in 0..len}

\* every column of at most MaxLen + 1 cells, missing values included
ShortCols == SeqsUpTo({Cell(v) : v \in Vals} \cup {NaN}, MaxLen + 1)

\* a free head of at most len values followed by two constant runs, each
\* absent, single, of half length or of full length
RunLens == {0, 1, MaxRun \div 2, MaxRun}
RunSeqs(len) ==
    {h \o Rep(a, p) \o Rep(b, q) :
        h \in SeqsUpTo(Vals, len), a \in Vals, b \in Vals,
        p \in RunLens, q \in RunLens}

WalkSeqs ==
    {Walk(p, len) : p \in SeqsUpTo(Steps, MaxPat) \ {<<>>}, len \in 0..MaxWalk}

\* the sequences named in the specification's testable properties
Rule1Example == <<0, 0, 0, 3>>
Rule5Example == <<1, 2, 3, 4, 5, 6>>
Rule7Example == <<5, 4, 6, 3, 7, 2, 8, 1, 9, 0, 10, 0 - 1, 11, 0 - 2>>
Examples == {Rule1Example, Rule5Example, Rule7Example}

ToCells(s) == [k \in DOMAIN s |-> Cell(s[k])]

Columns(len) ==
    ShortCols
        \cup {ToCells(s) : s \in RunSeqs(len) \cup WalkSeqs \cup Examples}

\* the parsed CSV as far as the function looks at it: whether outputCol is
\* one of its columns, and that column's cells
Frames(len) ==
    {[hasCol |-> TRUE, column |-> c] : c \in Columns(len)}
        \cup {[hasCol |-> FALSE, column |-> <<>>]}

----------------------------------------------------------------------------
(* The program *)

Init ==
    /\ pc = "read"
    /\ df = None
    /\ data = <<>>
    /\ mean = None
    /\ std = None
    /\ i = 0
    /\ zScores = <<>>
    /\ problemPoints = {}
    /\ messages = <<>>
    /\ result = None
    /\ off = 0
    /\ messagesOff = <<>>
    /\ problemPointsOff = {}

\* df = pd.read_csv(io.BytesIO(controlDataBytes))
ReadCsv(frames, offs) ==
    /\ pc = "read"
    /\ \E f \in frames : df' = f
    /\ \E o \in offs : off' = o
    /\ pc' = "check_col"
    /\ UNCHANGED <<data, mean, std, i, zScores, problemPoints, messages,
                   result, messagesOff, problemPointsOff>>

\* if outputCol not in df.columns: return {...}
CheckColumn ==
    /\ pc = "check_col"
    /\ IF ~df.hasCol
       THEN /\ result' = [ok |-> FALSE, error |-> "MissingColumn"]
            /\ pc' = "done"
       ELSE /\ pc' = "dropna"
            /\ UNCHANGED result
    /\ UNCHANGED <<df, data, mean, std, i, zScores, problemPoints, messages,
                   off, messagesOff, problemPointsOff>>

\* data = df[outputCol].dropna().reset_index(drop=True)
SelectData ==
    /\ pc = "dropna"
    /\ data' = DropNa(df.column)
    /\ pc' = "check_len"
    /\ UNCHANGED <<df, mean, std, i, zScores, problemPoints, messages,
                   result, off, messagesOff, problemPointsOff>>

\* if len(data) < 2: return {...}
CheckLength ==
    /\ pc = "check_len"
    /\ IF TooShort(data)
       THEN /\ result' = [ok |-> FALSE, error |-> "InsufficientData"]
            /\ pc' = "done"
       ELSE /\ pc' = "stats"
            /\ UNCHANGED result
    /\ UNCHANGED <<df, data, mean, std, i, zScores, problemPoints, messages,
                   off, messagesOff, problemPointsOff>>

\* mean = data.mean(); std = data.std(ddof=1)
ComputeStats ==
    /\ pc = "stats"
    /\ mean' = Mean(data)
    /\ std' = Std(data)
    /\ pc' = "check_std"
    /\ UNCHANGED <<df, data, i, zScores, problemPoints, messages, result,
                   off, messagesOff, problemPointsOff>>

\* if std == 0 or pd.isna(std): return {...}; otherwise the three
\* accumulators are created empty and the loop is entered
CheckStd ==
    /\ pc = "check_std"
    /\ IF StdUndefined(std)
       THEN /\ result' = [ok |-> FALSE, error |-> "DegenerateVariance"]
            /\ pc' = "done"
            /\ UNCHANGED <<zScores, problemPoints, messages, messagesOff,
                           problemPointsOff>>
       ELSE /\ zScores' = <<>>
            /\ problemPoints' = {}
            /\ messages' = <<>>
            /\ messagesOff' = <<>>
            /\ problemPointsOff' = {}
            /\ pc' = "loop"
            /\ UNCHANGED result
    /\ UNCHANGED <<df, data, mean, std, i, off>>

\* as Iterate, with zScores.append moved to the end of the loop body: the
\* rules at index i look at the list before z[i] is in it
Iterate_AppendsLast ==
    /\ pc = "loop"
    /\ i < Len(data)
    /\ LET x == At(data, i)
           z == ZScore(x, mean, std)
           acc == LoopBody([messages |-> messages,
                            problemPoints |-> problemPoints],
                           i, z, data, zScores, 0)
           accOff == IF off = 0 THEN acc
                     ELSE LoopBody([messages |-> messagesOff,
                                    problemPoints |-> problemPointsOff],
                                   i, z, data, zScores, off)
       IN /\ zScores' = Append(zScores, z)
          /\ messages' = acc.messages
          /\ problemPoints' = acc.problemPoints
          /\ messagesOff' = accOff.messages
          /\ problemPointsOff' = accOff.problemPoints
    /\ i' = i + 1
    /\ UNCHANGED <<pc, df, data, mean, std, result, off>>

\* one iteration of "for i, x in enumerate(data)"; the variable i of the
\* model is the index of the next iteration (the number of completed ones).
\* messagesOff / problemPointsOff are the accumulators of a second run of
\* the same loop on the same input in which rule off is disabled.
Iterate ==
    /\ pc = "loop"
    /\ i < Len(data)
    /\ LET x == At(data, i)
           z == ZScore(x, mean, std)
           zs == Append(zScores, z)
           acc == LoopBody([messages |-> messages,
                            problemPoints |-> problemPoints],
                           i, z, data, zs, 0)
           accOff == IF off = 0 THEN acc
                     ELSE LoopBody([messages |-> messagesOff,
                                    problemPoints |-> problemPointsOff],
                                   i, z, data, zs, off)
       IN /\ zScores' = zs
          /\ messages' = acc.messages
          /\ problemPoints' = acc.problemPoints
          /\ messagesOff' = accOff.messages
          /\ problemPointsOff' = accOff.problemPoints
    /\ i' = i + 1
    /\ UNCHANGED <<pc, df, data, mean, std, result, off>>

\* after the loop: prob = sorted(problemPoints), the flagged points are
\* looked up in zScores for the red scatter (an index outside the list
\* raises IndexError), and the dictionary is returned
Finish ==
    /\ pc = "loop"
    /\ i = Len(data)
    /\ LET prob == Sorted(problemPoints)
       IN IF \E p \in problemPoints :
                 ~(0 - Len(zScores) <= p /\ p < Len(zScores))
          THEN result' = [ok |-> FALSE, error |-> "IndexError"]
          ELSE result' = [ok |-> TRUE, n |-> Len(zScores), mean |-> mean,
                          std |-> std, problem_points |-> prob,
                          messages |-> messages]
    /\ pc' = "done"
    /\ UNCHANGED <<df, data, mean, std, i, zScores, problemPoints, messages,
                   off, messagesOff, problemPointsOff>>

Next ==
    \/ ReadCsv(Frames(MaxLen), {0})
    \/ CheckColumn
    \/ SelectData
    \/ CheckLength
    \/ ComputeStats
    \/ CheckStd
    \/ Iterate
    \/ Finish

Spec == Init /\ [][Next]_vars

\* the same program, run next to a copy of its scan with one rule disabled
\* (heads one value shorter, every choice of the disabled rule)
NextPair ==
    \/ ReadCsv(Frames(MaxLen - 1), 1..8)
    \/ CheckColumn
    \/ SelectData
    \/ CheckLength
    \/ ComputeStats
    \/ CheckStd
    \/ Iterate
    \/ Finish

SpecPair == Init /\ [][NextPair]_vars

----------------------------------------------------------------------------
(* Vocabulary of the properties *)

\* rule r has a message for a firing at index k
Fired(msgs, r, k) == \E j \in DOMAIN msgs : msgs[j].rule = r /\ msgs[j].hi = k

\* number of messages of rule r for index k
TimesFired(msgs, r, k) ==
    Cardinality({j \in DOMAIN msgs : msgs[j].rule = r /\ msgs[j].hi = k})

\* window size of each rule, from the rule table of the specification
WindowSize(r) ==
    CASE r = 1 -> 1 [] r = 2 -> 3 [] r = 3 -> 5 [] r = 4 -> 8
      [] r = 5 -> 6 [] r = 6 -> 15 [] r = 7 -> 14 [] r = 8 -> 8

\* the span a firing of rule r at index k implicates: k-w+1 .. k
Span(r, k) == (k - WindowSize(r) + 1)..k

\* the run passed both validations and entered (or finished) the scan
Scanning == pc = "loop" \/ (pc = "done" /\ result.ok)

\* the z-score of the sample at index j, from the sample itself
Z(j) == ZScore(At(data, j), mean, std)

\* the difference x[j+1] - x[j]
Diff(j) == At(data, j + 1) - At(data, j)

\* the trigger conditions of the rule table, stated on the sample sequence
Cond1(k) == AbsGe(Z(k), 3)
Cond2(k) ==
    /\ k >= 2
    /\ \/ Cardinality({j \in (k - 2)..k : Ge(Z(j), 2)}) >= 2
       \/ Cardinality({j \in (k - 2)..k : Le(Z(j), 2)}) >= 2
Cond3(k) ==
    /\ k >= 4
    /\ \/ Cardinality({j \in (k - 4)..k : Ge(Z(j), 1)}) >= 4
       \/ Cardinality({j \in (k - 4)..k : Le(Z(j), 1)}) >= 4
Cond4(k) ==
    /\ k >= 7
    /\ \/ \A j \in (k - 7)..k : Pos(Z(j))
       \/ \A j \in (k - 7)..k : Neg(Z(j))
Cond5(k) ==
    /\ k >= 5
    /\ \/ \A j \in (k - 5)..(k - 1) : Diff(j) > 0
       \/ \A j \in (k - 5)..(k - 1) : Diff(j) < 0
Cond6(k) ==
    /\ k >= 14
    /\ \A j \in (k - 14)..k : AbsLt(Z(j), 1)
Cond7(k) ==
    /\ k >= 13
    /\ \A j \in (k - 13)..(k - 1) : Diff(j) # 0
    /\ \A j \in (k - 13)..(k - 2) : Sgn(Diff(j)) = 0 - Sgn(Diff(j + 1))
Cond8(k) ==
    /\ k >= 7
    /\ \A j \in (k - 7)..k : AbsGe(Z(j), 1)
    /\ \E j \in (k - 7)..k : Pos(Z(j))
    /\ \E j \in (k - 7)..k : Neg(Z(j))
Cond(r, k) ==
    CASE r = 1 -> Cond1(k) [] r = 2 -> Cond2(k) [] r = 3 -> Cond3(k)
      [] r = 4 -> Cond4(k) [] r = 5 -> Cond5(k) [] r = 6 -> Cond6(k)
      [] r = 7 -> Cond7(k) [] r = 8 -> Cond8(k)

\* s is a prefix of t
IsPrefix(s, t) == Len(s) <= Len(t) /\ SubSeq(t, 1, Len(s)) = s

\* the indices a property of the scan is looked at: in a finished scan all
\* of them, between iterations the one just processed (the earlier ones were
\* looked at in the earlier states, and messages are only appended)
Indices ==
    IF pc = "done" THEN 0..(i - 1) ELSE IF i > 0 THEN {i - 1} ELSE {}

StrictlyAscending(s) == \A a, b \in DOMAIN s : a < b => s[a] < s[b]

SeqRange(s) == {s[k] : k \in DOMAIN s}

AllEqual(s) == \A a, b \in DOMAIN s : s[a] = s[b]

----------------------------------------------------------------------------
(* C1 *)

\* C1: after every iteration of the scan and in the returned result, the
\* flagged set is the union of the spans of the rules fired so far (a rule
\* of window w fired at k contributes k-w+1..k) and lies within 0..n-1; the
\* returned list is that set, ascending and without duplicates.
C1_FlaggedIsUnionOfFiredSpans ==
    /\ problemPoints =
           UNION {Span(messages[j].rule, messages[j].hi) : j \in DOMAIN messages}
    /\ problemPoints \subseteq 0..(Len(data) - 1)
    /\ pc = "done" /\ df.hasCol /\ ~TooShort(data) /\ ~AllEqual(data)
           => /\ result.ok
              /\ StrictlyAscending(result.problem_points)
              /\ SeqRange(result.problem_points) = problemPoints

\* a finished run in which two different rules fired and flagged some, but
\* not all, of the indices
C1_Witness ==
    /\ pc = "done"
    /\ result.ok
    /\ \E a, b \in DOMAIN messages : messages[a].rule # messages[b].rule
    /\ Len(result.problem_points) >= 2
    /\ Len(result.problem_points) < result.n

----------------------------------------------------------------------------
(* C2 *)

\* C2: a cleaned sequence of fewer than 2 values ends in InsufficientData;
\* mean and std are never computed, no z-score is produced, no rule runs,
\* and nothing but ok = false and the error is returned.
C2_ShortSequenceIsInsufficientData ==
    /\ pc \in {"stats", "check_std", "loop"} => Len(data) >= 2
    /\ pc = "done" /\ df.hasCol /\ Len(DropNa(df.column)) < 2
           => /\ result = [ok |-> FALSE, error |-> "InsufficientData"]
              /\ mean = None /\ std = None
              /\ zScores = <<>> /\ i = 0
              /\ messages = <<>> /\ problemPoints = {}

\* a column of three cells of which one is a number, rejected
C2_Witness ==
    /\ pc = "done"
    /\ Len(df.column) = 3
    /\ Len(data) = 1
    /\ result = [ok |-> FALSE, error |-> "InsufficientData"]

----------------------------------------------------------------------------
(* C3 *)

----------------------------------------------------------------------------
(* C4 *)

\* the messages are in index-major, rule-minor order, all about indices
\* already processed, and every rule whose condition holds at the index just
\* processed has exactly one message for it, whatever else fired there
C4_Ordered ==
    /\ \A a, b \in DOMAIN messages :
           a < b => \/ messages[a].hi < messages[b].hi
                    \/ /\ messages[a].hi = messages[b].hi
                       /\ messages[a].rule < messages[b].rule
    /\ \A a \in DOMAIN messages : messages[a].hi < i
    /\ pc = "loop" /\ i > 0
           => \A r \in 1..8 :
                  TimesFired(messages, r, i - 1) = IF Cond(r, i - 1) THEN 1 ELSE 0

\* a step of the scan only appends to the message list
C4_OnlyAppends == pc = "loop" => IsPrefix(messages, messages')

\* C4: indices are processed in increasing order and the rules in the order
\* 1..8 without short-circuit, every rule whose condition holds appends
\* exactly one message, so the list is index-major, rule-minor; and the
\* list is never reordered or truncated.
C4_MessageOrder == [](C4_Ordered) /\ [][C4_OnlyAppends]_vars

\* two rules fired at one index, after a firing at an earlier index
C4_Witness ==
    /\ pc = "loop"
    /\ \E k \in 1..(i - 1) :
           /\ Cardinality({r \in 1..8 : Fired(messages, r, k)}) >= 2
           /\ \E r \in 1..8 : Fired(messages, r, k - 1)

----------------------------------------------------------------------------
(* C5 *)

\* C5 as stated: on [0,0,0,3] Rule 1 fires at index 3 and at no earlier
\* index.
C5_Rule1FiresOnExample ==
    pc = "done" /\ data = Rule1Example
        => /\ Fired(messages, 1, 3)
           /\ \A k \in 0..2 : ~Fired(messages, 1, k)

\* C5, amended: on [0,0,0,3] the mean is 3/4 and the sample standard
\* deviation 3/2, so the value 3 is 1.5 standard deviations away
\* (z[3] = 3/2, z^2 = 9/4); Rule 1 fires at no index and the run succeeds
\* with no message and no flagged index.
C5_Rule1SilentOnExample ==
    pc = "done" /\ data = Rule1Example
        => /\ result.ok
           /\ 4 * mean.num = 3 * mean.den
           /\ 4 * std.sqnum = 9 * std.sqden
           /\ At(zScores, 3).sign = 1
           /\ 4 * At(zScores, 3).sqn = 9 * At(zScores, 3).sqd
           /\ \A k \in 0..3 : ~Fired(messages, 1, k)
           /\ result.messages = <<>>
           /\ result.problem_points = <<>>

\* the run on [0,0,0,3] has finished
C5_Witness ==
    /\ pc = "done"
    /\ data = Rule1Example
    /\ Len(zScores) = 4

----------------------------------------------------------------------------
(* C6 *)

\* C6: Rule 5 has a message for index k exactly when k >= 5 and the six raw
\* values x[k-5..k] are strictly increasing or strictly decreasing; then it
\* has one message and every index of k-5..k is flagged; [1,2,3,4,5,6]
\* fires it at index 5 with span [0,5].
C6_Rule5 ==
    /\ Scanning
           => \A k \in Indices :
                  /\ Fired(messages, 5, k) <=> Cond5(k)
                  /\ Fired(messages, 5, k)
                         => /\ k >= 5
                            /\ TimesFired(messages, 5, k) = 1
                            /\ (k - 5)..k \subseteq problemPoints
    /\ pc = "done" /\ data = Rule5Example
           => /\ result.messages = <<Msg(5, 0, 5, "increasing")>>
              /\ result.problem_points = <<0, 1, 2, 3, 4, 5>>

\* Rule 5 fired at index 5 of [1,2,3,4,5,6]
C6_Witness ==
    /\ pc = "done"
    /\ data = Rule5Example
    /\ Fired(messages, 5, 5)

----------------------------------------------------------------------------
(* C7 *)

\* C7: Rule 7 has a message for index k exactly when k >= 13 and the 13
\* differences x[j+1]-x[j], j in k-13..k-1, are all non-zero with every
\* adjacent pair of opposite sign; then every index of k-13..k is flagged;
\* [5,4,6,3,7,2,8,1,9,0,10,-1,11,-2] fires it at index 13.
C7_Rule7 ==
    /\ Scanning
           => \A k \in Indices :
                  /\ Fired(messages, 7, k) <=> Cond7(k)
                  /\ Fired(messages, 7, k)
                         => /\ k >= 13
                            /\ TimesFired(messages, 7, k) = 1
                            /\ (k - 13)..k \subseteq problemPoints
    /\ pc = "done" /\ data = Rule7Example
           => /\ Fired(result.messages, 7, 13)
              /\ SeqRange(result.problem_points) = 0..13

\* Rule 7 fired at index 13 of the alternating example
C7_Witness ==
    /\ pc = "done"
    /\ data = Rule7Example
    /\ Fired(messages, 7, 13)

----------------------------------------------------------------------------
(* C8 *)

\* C8: in a second run of the scan on the same input with rule off
\* disabled, every other rule fires at exactly the same indices: the
\* second run's messages are the first run's without those of rule off.
C8_RuleIndependence ==
    messagesOff = SelectSeq(messages, LAMBDA m : m.rule # off)

\* rule 4 is the disabled rule; it fired at an index where rule 5 fired too
C8_Witness ==
    /\ Scanning
    /\ off = 4
    /\ \E k \in 0..(i - 1) :
           /\ Fired(messages, 4, k)
           /\ Fired(messages, 5, k)
           /\ ~Fired(messagesOff, 4, k)

----------------------------------------------------------------------------
(* C9 *)

\* the complete z-score sequence, built before any rule is looked at
ZScoresEager == [k \in DOMAIN data |-> ZScore(data[k], mean, std)]

\* one step, at index k, of an evaluator that is handed the complete
\* z-score sequence zs and never writes to it
EvaluateStep(acc, k, zs) == LoopBody(acc, k, At(zs, k), data, zs, 0)

\* the same step when it is handed only the samples and z-scores of the
\* indices 0..k
EvaluateStepBackward(acc, k, zs) ==
    LoopBody(acc, k, At(zs, k), SubSeq(data, 1, k + 1), SubSeq(zs, 1, k + 1), 0)

\* between iterations the z-score list holds exactly the z-scores of the
\* indices processed so far, and the returned lists are the accumulated ones
C9_ZScoresBuiltSoFar ==
    /\ Scanning
           => /\ Len(zScores) = i
              /\ zScores = SubSeq(ZScoresEager, 1, i)
    /\ pc = "done" /\ result.ok
           => /\ zScores = ZScoresEager
              /\ result.messages = messages
              /\ SeqRange(result.problem_points) = problemPoints

\* an iteration of the scan takes the accumulators where the step of the
\* eager evaluator takes them, which is where a step that sees no index
\* beyond the current one takes them; it appends one z-score and changes none
C9_StepIsEagerStep ==
    pc = "loop" /\ i' = i + 1
        => LET acc == [messages |-> messages, problemPoints |-> problemPoints]
               eager == EvaluateStep(acc, i, ZScoresEager)
           IN /\ messages' = eager.messages
              /\ problemPoints' = eager.problemPoints
              /\ eager = EvaluateStepBackward(acc, i, ZScoresEager)
              /\ Len(zScores') = i + 1
              /\ IsPrefix(zScores, zScores')

\* C9: the scan, which appends z[i] and only then tests the rules at i,
\* produces the messages and the flagged set of an evaluator that is handed
\* the complete z-score sequence and treats it as read-only: both start
\* empty and every iteration is a step of that evaluator; at step i the list
\* has length i+1, earlier entries are unchanged, and no rule reads a sample
\* or z-score beyond i.
C9_ScanEqualsEagerEvaluator ==
    [](C9_ZScoresBuiltSoFar) /\ [][C9_StepIsEagerStep]_vars

\* a finished scan in which a z-score rule and a raw-value rule fired
C9_Witness ==
    /\ pc = "done"
    /\ result.ok
    /\ \E a, b \in DOMAIN messages :
           messages[a].rule = 4 /\ messages[b].rule = 5

----------------------------------------------------------------------------
(* C10 *)

\* C10: Rule 2 has a message for index k exactly when k >= 2 and at least
\* two of z[k-2..k] are >= 2 or at least two are <= -2; then every index of
\* k-2..k is flagged, whatever the third point is.
C10_Rule2 ==
    Scanning
        => \A k \in Indices :
               /\ Fired(messages, 2, k) <=> Cond2(k)
               /\ Fired(messages, 2, k)
                      => /\ k >= 2
                         /\ TimesFired(messages, 2, k) = 1
                         /\ (k - 2)..k \subseteq problemPoints

\* Rule 2 fired on a window [z >= 2, z <= -2, z >= 2]
C10_Witness ==
    /\ Scanning
    /\ \E k \in 2..(i - 1) :
           /\ Fired(messages, 2, k)
           /\ Ge(Z(k - 2), 2) /\ Le(Z(k - 1), 2) /\ Ge(Z(k), 2)

====
